---- MODULE Spec2Model ----
(***************************************************************************)
(* Model of src/main.py: the GeoGebra document builder.  A document is an  *)
(* ElementTree: the root <geogebra> with the <gui>, <euclidianView>,       *)
(* <kernel> and <construction> children.  The builder methods append       *)
(* entries to <construction>; save() serialises the tree into a ZIP        *)
(* archive.  An XML node is [tag, attrs, children]; attrs is the ordered   *)
(* sequence of <<name, value>> pairs of the node, every value a string.    *)
(* File names are sequences of one-character strings.                      *)
(***************************************************************************)
EXTENDS Integers, Sequences, FiniteSets, TLC

VARIABLES root_attribs, gui, euclidianView, kernel, construction,
          disk, outcome, calls, pc

vars == <<root_attribs, gui, euclidianView, kernel, construction,
          disk, outcome, calls, pc>>

(* ------------------------------ bounds --------------------------------- *)

\* number of calls a library client makes on one document
MaxOps == 2

\* labels, coefficients and coordinates a library client passes
Labels == {"A", "f"}
Values == {-2, 12}
\* identifiers uuid.uuid4() may return
UUIDs == {"uuid-1", "uuid-2"}
\* file names a library client passes to save
FileNames == { <<>>, <<"a">>, <<"a", ".", "g", "g", "b">>, <<"g", "g", "b">> }

(* --------------------------- ElementTree ------------------------------- *)

Element(tag, attrs) == [tag |-> tag, attrs |-> attrs, children |-> <<>>]

SubElement(parent, tag, attrs) ==
    [parent EXCEPT !.children = Append(@, Element(tag, attrs))]

append(parent, child) == [parent EXCEPT !.children = Append(@, child)]

(* ----------------------------- builtins -------------------------------- *)

Digit(d) ==
    CASE d = 0 -> "0" [] d = 1 -> "1" [] d = 2 -> "2" [] d = 3 -> "3"
      [] d = 4 -> "4" [] d = 5 -> "5" [] d = 6 -> "6" [] d = 7 -> "7"
      [] d = 8 -> "8" [] d = 9 -> "9"

RECURSIVE NatStr(_)
NatStr(n) == IF n < 10 THEN Digit(n) ELSE NatStr(n \div 10) \o Digit(n % 10)

\* str(n) of a Python int
str(n) == IF n < 0 THEN "-" \o NatStr(-n) ELSE NatStr(n)

\* str(b).lower() of a Python bool
str_lower(b) == IF b THEN "true" ELSE "false"

\* s.endswith(suffix)
endswith(s, suffix) ==
    /\ Len(s) >= Len(suffix)
    /\ SubSeq(s, Len(s) - Len(suffix) + 1, Len(s)) = suffix

(* ---------------------- the skeleton of __init__ ----------------------- *)

new_root_attribs(app, sub_app, id) ==
    << <<"format", "5.0">>,
       <<"version", "5.2.892.0">>,
       <<"app", app>>,
       <<"subApp", sub_app>>,
       <<"platform", "w">>,
       <<"id", id>>,
       <<"xsi:noNamespaceSchemaLocation", "http://www.geogebra.org/apps/xsd/ggb.xsd">>,
       <<"xmlns", "">>,
       <<"xmlns:xsi", "http://www.w3.org/2001/XMLSchema-instance">> >>

add_gui ==
    LET window == Element("window", << <<"width", "1280">>, <<"height", "800">> >>)
        pane == Element("pane", << <<"location", "">>, <<"divider", "0.25">>,
                                   <<"orientation", "1">> >>)
        panes == append(Element("panes", <<>>), pane)
        view1 == Element("view", << <<"id", "1">>, <<"visible", "true">>,
                     <<"inframe", "false">>, <<"stylebar", "false">>,
                     <<"location", "1">>, <<"size", "950">>,
                     <<"window", "100,100,600,400">> >>)
        view2 == Element("view", << <<"id", "2">>, <<"visible", "true">>,
                     <<"inframe", "false">>, <<"stylebar", "false">>,
                     <<"location", "3">>, <<"size", "300">>,
                     <<"tab", "ALGEBRA">>, <<"window", "100,100,600,400">> >>)
        views == append(append(Element("views", <<>>), view1), view2)
        perspective == append(append(
                          Element("perspective", << <<"id", "graphing">> >>),
                          panes), views)
        perspectives == append(Element("perspectives", <<>>), perspective)
        g1 == append(Element("gui", <<>>), window)
        g2 == append(g1, perspectives)
        g3 == SubElement(g2, "labelingStyle", << <<"val", "1">> >>)
    IN  SubElement(g3, "font", << <<"size", "16">> >>)

add_euclidian_view ==
    LET e0 == Element("euclidianView", <<>>)
        e1 == SubElement(e0, "viewNumber", << <<"viewNo", "1">> >>)
        e2 == SubElement(e1, "size", << <<"width", "880">>, <<"height", "606">> >>)
        e3 == SubElement(e2, "coordSystem", << <<"xZero", "440">>, <<"yZero", "303">>,
                             <<"scale", "50">>, <<"yscale", "50">> >>)
        e4 == SubElement(e3, "evSettings", << <<"axes", "true">>, <<"grid", "true">>,
                             <<"gridIsBold", "false">>, <<"pointCapturing", "3">>,
                             <<"rightAngleStyle", "1">>, <<"checkboxSize", "26">>,
                             <<"gridType", "3">> >>)
        e5 == SubElement(e4, "bgColor", << <<"r", "255">>, <<"g", "255">>, <<"b", "255">> >>)
        e6 == SubElement(e5, "axesColor", << <<"r", "0">>, <<"g", "0">>, <<"b", "0">> >>)
    IN  SubElement(e6, "gridColor", << <<"r", "192">>, <<"g", "192">>, <<"b", "192">> >>)

add_kernel ==
    LET k0 == Element("kernel", <<>>)
        k1 == SubElement(k0, "continuous", << <<"val", "false">> >>)
        k2 == SubElement(k1, "usePathAndRegionParameters", << <<"val", "true">> >>)
        k3 == SubElement(k2, "decimals", << <<"val", "2">> >>)
        k4 == SubElement(k3, "angleUnit", << <<"val", "degree">> >>)
        k5 == SubElement(k4, "algebraStyle", << <<"val", "3">> >>)
    IN  SubElement(k5, "coordStyle", << <<"val", "0">> >>)

(* -------------------- the entries the builders make -------------------- *)

create_element_base(el_type, label, color, layer, visible, label_visible) ==
    LET e0 == Element("element", << <<"type", el_type>>, <<"label", label>> >>)
        e1 == SubElement(e0, "show", << <<"object", str_lower(visible)>>,
                                        <<"label", str_lower(label_visible)>> >>)
        e2 == SubElement(e1, "objColor", << <<"r", str(color[1])>>,
                             <<"g", str(color[2])>>, <<"b", str(color[3])>>,
                             <<"alpha", "0">> >>)
        e3 == SubElement(e2, "layer", << <<"val", str(layer)>> >>)
    IN  SubElement(e3, "labelMode", << <<"val", "0">> >>)

\* variant: the coordinates written in the wrong order
point_element_yx(label, x, y, size, color) ==
    LET e0 == create_element_base("point", label, color, 0, TRUE, TRUE)
        e1 == SubElement(e0, "pointSize", << <<"val", str(size)>> >>)
        e2 == SubElement(e1, "pointStyle", << <<"val", "0">> >>)
    IN  SubElement(e2, "coords", << <<"x", str(y)>>, <<"y", str(x)>>, <<"z", "1.0">> >>)

point_element(label, x, y, size, color) ==
    LET e0 == create_element_base("point", label, color, 0, TRUE, TRUE)
        e1 == SubElement(e0, "pointSize", << <<"val", str(size)>> >>)
        e2 == SubElement(e1, "pointStyle", << <<"val", "0">> >>)
    IN  SubElement(e2, "coords", << <<"x", str(x)>>, <<"y", str(y)>>, <<"z", "1.0">> >>)

line_exp(a, b, c) == str(a) \o "x + " \o str(b) \o "y + " \o str(c) \o " = 0"

line_expression(label, a, b, c) ==
    Element("expression", << <<"label", label>>, <<"exp", line_exp(a, b, c)>>,
                             <<"type", "line">> >>)

\* variant: the coefficients B and C exchanged in the coordinate triple
line_element_acb(label, a, b, c, color) ==
    LET e0 == create_element_base("line", label, color, 0, TRUE, TRUE)
        e1 == SubElement(e0, "fixed", << <<"val", "false">> >>)
        e2 == SubElement(e1, "lineStyle", << <<"thickness", "5">>, <<"type", "0">> >>)
    IN  SubElement(e2, "coords", << <<"x", str(a)>>, <<"y", str(c)>>, <<"z", str(b)>> >>)

line_element(label, a, b, c, color) ==
    LET e0 == create_element_base("line", label, color, 0, TRUE, TRUE)
        e1 == SubElement(e0, "fixed", << <<"val", "false">> >>)
        e2 == SubElement(e1, "lineStyle", << <<"thickness", "5">>, <<"type", "0">> >>)
    IN  SubElement(e2, "coords", << <<"x", str(a)>>, <<"y", str(b)>>, <<"z", str(c)>> >>)

\* variant: the two inputs of the command exchanged
command_entry_swapped(name, in0, in1, out) ==
    LET c0 == Element("command", << <<"name", name>> >>)
        c1 == SubElement(c0, "input", << <<"a0", in1>>, <<"a1", in0>> >>)
    IN  SubElement(c1, "output", << <<"a0", out>> >>)

command_entry(name, in0, in1, out) ==
    LET c0 == Element("command", << <<"name", name>> >>)
        c1 == SubElement(c0, "input", << <<"a0", in0>>, <<"a1", in1>> >>)
    IN  SubElement(c1, "output", << <<"a0", out>> >>)

segment_element(label, color) ==
    SubElement(create_element_base("segment", label, color, 0, TRUE, TRUE),
               "lineStyle", << <<"thickness", "5">> >>)

orthogonal_line_element(label, color) ==
    SubElement(create_element_base("line", label, color, 0, TRUE, TRUE),
               "lineStyle", << <<"thickness", "5">> >>)

\* the default colours of the builders' signatures
PointColor == <<21, 101, 192>>
LineColor == <<0, 103, 88>>
SegmentColor == <<200, 0, 200>>
OrthogonalColor == <<0, 0, 0>>
PointSize == 5

(* ------------------------------ state ---------------------------------- *)

Init ==
    /\ \E id \in UUIDs : root_attribs = new_root_attribs("suite", "graphing", id)
    /\ gui = add_gui
    /\ euclidianView = add_euclidian_view
    /\ kernel = add_kernel
    /\ construction = <<>>
    /\ disk = <<>>
    /\ outcome = "ok"
    /\ calls = <<>>
    /\ pc \in {"lib", "main1"}

Frame == UNCHANGED <<root_attribs, gui, euclidianView, kernel, disk>>

Returned(op, args) ==
    /\ calls' = Append(calls, [op |-> op, args |-> args])
    /\ outcome' = "ok"

(* ----------------------------- builders -------------------------------- *)

\* variant: the new element inserted at the head of the construction
add_point_at_head(label, x, y, size, color) ==
    /\ construction' = <<point_element(label, x, y, size, color)>> \o construction
    /\ Returned("add_point", [label |-> label, x |-> x, y |-> y])
    /\ Frame

add_point(label, x, y, size, color) ==
    /\ construction' = Append(construction, point_element(label, x, y, size, color))
    /\ Returned("add_point", [label |-> label, x |-> x, y |-> y])
    /\ Frame

\* variant: the expression entry left out
add_line_by_coeffs_no_expression(label, a, b, c, color) ==
    /\ construction' = Append(construction, line_element(label, a, b, c, color))
    /\ Returned("add_line_by_coeffs", [label |-> label, a |-> a, b |-> b, c |-> c])
    /\ Frame

add_line_by_coeffs(label, a, b, c, color) ==
    /\ construction' = Append(Append(construction, line_expression(label, a, b, c)),
                              line_element(label, a, b, c, color))
    /\ Returned("add_line_by_coeffs", [label |-> label, a |-> a, b |-> b, c |-> c])
    /\ Frame

\* the labels of the element entries of a construction list
element_labels(c) ==
    { c[i].attrs[2][2] : i \in { j \in 1..Len(c) : c[j].tag = "element" } }

\* variant: a strict builder that rejects an undeclared input or a duplicate label
add_segment_strict(label, point1_label, point2_label, color) ==
    /\ IF /\ {point1_label, point2_label} \subseteq element_labels(construction)
          /\ label \notin element_labels(construction)
       THEN /\ construction' = Append(Append(construction,
                      command_entry("Segment", point1_label, point2_label, label)),
                      segment_element(label, color))
            /\ outcome' = "ok"
       ELSE /\ construction' = construction
            /\ outcome' = "ValueError"
    /\ calls' = Append(calls, [op |-> "add_segment",
                               args |-> [label |-> label, point1_label |-> point1_label,
                                         point2_label |-> point2_label]])
    /\ Frame

add_segment(label, point1_label, point2_label, color) ==
    /\ construction' = Append(Append(construction,
                                 command_entry("Segment", point1_label, point2_label, label)),
                              segment_element(label, color))
    /\ Returned("add_segment", [label |-> label, point1_label |-> point1_label,
                                point2_label |-> point2_label])
    /\ Frame

\* variant: the element appended before its command
add_orthogonal_line_element_first(label, point_label, line_label, color) ==
    /\ construction' = Append(Append(construction, orthogonal_line_element(label, color)),
                              command_entry("OrthogonalLine", point_label, line_label, label))
    /\ Returned("add_orthogonal_line", [label |-> label, point_label |-> point_label,
                                        line_label |-> line_label])
    /\ Frame

add_orthogonal_line(label, point_label, line_label, color) ==
    /\ construction' = Append(Append(construction,
                                 command_entry("OrthogonalLine", point_label, line_label, label)),
                              orthogonal_line_element(label, color))
    /\ Returned("add_orthogonal_line", [label |-> label, point_label |-> point_label,
                                        line_label |-> line_label])
    /\ Frame

(* ------------------------------- save ---------------------------------- *)

GGB == <<".", "g", "g", "b">>

\* variant: the extension appended without looking at the name
save_filename_always(filename) == filename \o GGB

save_filename(filename) ==
    IF ~endswith(filename, GGB) THEN filename \o GGB ELSE filename

\* self.root as save reads it
root ==
    [tag |-> "geogebra", attrs |-> root_attribs,
     children |-> <<gui, euclidianView, kernel,
                    [tag |-> "construction", attrs |-> <<>>, children |-> construction]>>]

tostring(tree) == [xml_declaration |-> TRUE, encoding |-> "utf-8", tree |-> tree]

writestr(path, name, data) ==
    [path |-> path, entries |-> << [name |-> name, data |-> data] >>]

\* the files on disk with the file at path replaced (mode 'w' truncates)
write_file(files, file) ==
    LET others == { i \in 1..Len(files) : files[i].path # file.path }
        RECURSIVE keep(_)
        keep(i) == IF i > Len(files) THEN <<>>
                   ELSE IF i \in others THEN <<files[i]>> \o keep(i + 1)
                   ELSE keep(i + 1)
    IN  Append(keep(1), file)

\* variant: the construction emptied once it is written
save_and_clear(filename, io_ok) ==
    /\ calls' = Append(calls, [op |-> "save", args |-> [filename |-> filename]])
    /\ IF io_ok
       THEN /\ disk' = write_file(disk, writestr(save_filename(filename),
                                                 "geogebra.xml", tostring(root)))
            /\ outcome' = "ok"
       ELSE /\ disk' = disk
            /\ outcome' = "OSError"
    /\ construction' = <<>>
    /\ UNCHANGED <<root_attribs, gui, euclidianView, kernel>>

save(filename, io_ok) ==
    /\ calls' = Append(calls, [op |-> "save", args |-> [filename |-> filename]])
    /\ IF io_ok
       THEN /\ disk' = write_file(disk, writestr(save_filename(filename),
                                                 "geogebra.xml", tostring(root)))
            /\ outcome' = "ok"
       ELSE /\ disk' = disk
            /\ outcome' = "OSError"
    /\ UNCHANGED <<root_attribs, gui, euclidianView, kernel, construction>>

(* ----------------------------- clients --------------------------------- *)

LibAddPoint ==
    /\ pc = "lib" /\ Len(calls) < MaxOps
    /\ \E label \in Labels, x \in Values, y \in Values :
          add_point(label, x, y, PointSize, PointColor)
    /\ UNCHANGED pc

LibAddLineByCoeffs ==
    /\ pc = "lib" /\ Len(calls) < MaxOps
    /\ \E label \in Labels, a \in Values, b \in Values, c \in Values :
          add_line_by_coeffs(label, a, b, c, LineColor)
    /\ UNCHANGED pc

LibAddSegment ==
    /\ pc = "lib" /\ Len(calls) < MaxOps
    /\ \E label \in Labels, p \in Labels, q \in Labels :
          add_segment(label, p, q, SegmentColor)
    /\ UNCHANGED pc

LibAddOrthogonalLine ==
    /\ pc = "lib" /\ Len(calls) < MaxOps
    /\ \E label \in Labels, p \in Labels, l \in Labels :
          add_orthogonal_line(label, p, l, OrthogonalColor)
    /\ UNCHANGED pc

LibSave ==
    /\ pc = "lib" /\ Len(calls) < MaxOps
    /\ \E filename \in FileNames, io_ok \in BOOLEAN : save(filename, io_ok)
    /\ UNCHANGED pc

MainFileName ==
    <<"p","y","t","h","o","n","_","g","e","o","g","e","b","r","a","_","v","2",
      ".","g","g","b">>

\* variant: the script in the order point A, line f, line g, P, Q, segment
Main_point_first ==
    \/ /\ pc = "main1" /\ pc' = "main2"
       /\ add_point("A", -3, 4, PointSize, <<21, 101, 192>>)
    \/ /\ pc = "main2" /\ pc' = "main3"
       /\ add_line_by_coeffs("f", 0, 1, -2, <<0, 103, 88>>)
    \/ /\ pc = "main3" /\ pc' = "main4"
       /\ add_orthogonal_line("g", "A", "f", <<0, 0, 0>>)
    \/ /\ pc = "main4" /\ pc' = "main5"
       /\ add_point("P", 5, 5, PointSize, PointColor)
    \/ /\ pc = "main5" /\ pc' = "main6"
       /\ add_point("Q", 8, 1, PointSize, PointColor)
    \/ /\ pc = "main6" /\ pc' = "main7"
       /\ add_segment("seg1", "P", "Q", <<255, 87, 34>>)
    \/ /\ pc = "main7" /\ pc' = "done"
       /\ \E io_ok \in BOOLEAN : save(MainFileName, io_ok)

\* the script under  if __name__ == "__main__"
Main ==
    \/ /\ pc = "main1" /\ pc' = "main2"
       /\ add_line_by_coeffs("f", 0, 1, -2, <<0, 103, 88>>)
    \/ /\ pc = "main2" /\ pc' = "main3"
       /\ add_point("A", -3, 4, PointSize, <<21, 101, 192>>)
    \/ /\ pc = "main3" /\ pc' = "main4"
       /\ add_orthogonal_line("g", "A", "f", <<0, 0, 0>>)
    \/ /\ pc = "main4" /\ pc' = "main5"
       /\ add_point("P", 5, 5, PointSize, PointColor)
    \/ /\ pc = "main5" /\ pc' = "main6"
       /\ add_point("Q", 8, 1, PointSize, PointColor)
    \/ /\ pc = "main6" /\ pc' = "main7"
       /\ add_segment("seg1", "P", "Q", <<255, 87, 34>>)
    \/ /\ pc = "main7" /\ pc' = "done"
       /\ \E io_ok \in BOOLEAN : save(MainFileName, io_ok)

Next ==
    \/ LibAddPoint
    \/ LibAddLineByCoeffs
    \/ LibAddSegment
    \/ LibAddOrthogonalLine
    \/ LibSave
    \/ Main

Spec == Init /\ [][Next]_vars

TypeOK ==
    /\ pc \in {"lib", "main1", "main2", "main3", "main4", "main5", "main6", "main7", "done"}
    /\ outcome \in {"ok", "OSError"}
    /\ Len(calls) <= 7

(* ----------------------- reading a document ---------------------------- *)

\* the value of attribute name of a node that has it
Attr(node, name) ==
    node.attrs[CHOOSE i \in 1..Len(node.attrs) : node.attrs[i][1] = name][2]

HasAttr(node, name) == \E i \in 1..Len(node.attrs) : node.attrs[i][1] = name

HasChild(node, tag) == \E i \in 1..Len(node.children) : node.children[i].tag = tag

Child(node, tag) ==
    node.children[CHOOSE i \in 1..Len(node.children) : node.children[i].tag = tag]

IsPrefix(s, t) == Len(s) <= Len(t) /\ SubSeq(t, 1, Len(s)) = s

\* the decimal numerals of the numbers the clients pass
Decimal(v) ==
    CASE v = -3 -> "-3" [] v = -2 -> "-2" [] v = -1 -> "-1" [] v = 0 -> "0"
      [] v = 1 -> "1" [] v = 4 -> "4" [] v = 5 -> "5" [] v = 8 -> "8"
      [] v = 12 -> "12" [] v = 13 -> "13"

BuilderOps == {"add_point", "add_line_by_coeffs", "add_segment", "add_orthogonal_line"}

LastCall == calls[Len(calls)]

\* this step is a call of op; NewArgs are its arguments
Called(op) == Len(calls') = Len(calls) + 1 /\ calls'[Len(calls')].op = op
NewArgs == calls'[Len(calls')].args

CountOf(op) == Cardinality({ i \in 1..Len(calls) : calls[i].op = op })

\* the element entries declared in c[1..n]
DeclaredBefore(c, n) ==
    { Attr(c[i], "label") : i \in { j \in 1..n : c[j].tag = "element" } }

\* the construction list inside the archive most recently written
SavedConstruction(files) ==
    files[Len(files)].entries[1].data.tree.children[4].children

(* ------------------------------- C1 ------------------------------------ *)

\* C1: a call add_segment(L, P, Q) appends exactly two entries at the end of
\* the construction list: a command entry named "Segment" with inputs P, Q in
\* that order and output L, immediately followed by an element entry of kind
\* segment labelled L that has no input declaration.
C1_AddSegmentAppendsCommandThenElement ==
    [][Called("add_segment") =>
         LET n == Len(construction)
             cmd == construction'[n + 1]
             el == construction'[n + 2]
         IN  /\ Len(construction') = n + 2
             /\ SubSeq(construction', 1, n) = construction
             /\ cmd.tag = "command"
             /\ cmd.attrs = << <<"name", "Segment">> >>
             /\ Len(cmd.children) = 2
             /\ cmd.children[1].tag = "input"
             /\ cmd.children[1].attrs = << <<"a0", NewArgs.point1_label>>,
                                           <<"a1", NewArgs.point2_label>> >>
             /\ cmd.children[2].tag = "output"
             /\ cmd.children[2].attrs = << <<"a0", NewArgs.label>> >>
             /\ el.tag = "element"
             /\ Attr(el, "type") = "segment"
             /\ Attr(el, "label") = NewArgs.label
             /\ ~HasChild(el, "input")
             /\ ~HasAttr(el, "input")]_vars

\* a segment between two different labels was added to a non-empty document
C1_Witness ==
    /\ Len(calls) >= 2
    /\ LastCall.op = "add_segment"
    /\ LastCall.args.point1_label # LastCall.args.point2_label
    /\ Len(construction) >= 3

(* ------------------------------- C2 ------------------------------------ *)

\* C2: the number of entries of the construction list is 1 for every
\* add_point call made plus 2 for every add_line_by_coeffs, add_segment and
\* add_orthogonal_line call made; it is empty before the first call.
C2_EntryCountIsSumOfContributions ==
    /\ Len(construction) = CountOf("add_point")
                           + 2 * CountOf("add_line_by_coeffs")
                           + 2 * CountOf("add_segment")
                           + 2 * CountOf("add_orthogonal_line")
    /\ (calls = <<>> => construction = <<>>)

\* a point and a line by coefficients were both added
C2_Witness ==
    /\ CountOf("add_point") >= 1
    /\ CountOf("add_line_by_coeffs") >= 1
    /\ Len(construction) = 3

(* ------------------------------- C3 ------------------------------------ *)

\* tag, kind (type or command name) and label of an entry
Summary(e) ==
    IF e.tag = "command"
    THEN <<e.tag, Attr(e, "name"), Attr(Child(e, "output"), "a0")>>
    ELSE <<e.tag, Attr(e, "type"), Attr(e, "label")>>

Summaries(c) == [i \in 1..Len(c) |-> Summary(c[i])]

MainExpected ==
    << <<"expression", "line", "f">>,
       <<"element", "line", "f">>,
       <<"element", "point", "A">>,
       <<"command", "OrthogonalLine", "g">>,
       <<"element", "line", "g">>,
       <<"element", "point", "P">>,
       <<"element", "point", "Q">>,
       <<"command", "Segment", "seg1">>,
       <<"element", "segment", "seg1">> >>

\* C3: when the example script exports, the construction list is
\* expression(f), element(f), element(A), command(OrthogonalLine->g),
\* element(g), element(P), element(Q), command(Segment->seg1), element(seg1):
\* 9 entries; the archive it writes holds the same list.
C3_MainScriptConstruction ==
    /\ pc \in {"main7", "done"} =>
          /\ Len(construction) = 9
          /\ Summaries(construction) = MainExpected
    /\ (pc = "done" /\ outcome = "ok") =>
          /\ Len(disk) = 1
          /\ Summaries(SavedConstruction(disk)) = MainExpected

\* the script has run to its end and the archive is written
C3_Witness ==
    /\ pc = "done"
    /\ outcome = "ok"
    /\ Len(disk) = 1
    /\ Len(construction) = 9

(* ------------------------------- C4 ------------------------------------ *)

\* C4: add_line_by_coeffs(label, A, B, C) appends exactly two entries: an
\* expression entry with the label and the string "Ax + By + C = 0" with the
\* numerals of A, B, C substituted, then an element entry of kind line with
\* the same label and the coordinate triple (A, B, C).
C4_AddLineAppendsExpressionThenElement ==
    [][Called("add_line_by_coeffs") =>
         LET n == Len(construction)
             ex == construction'[n + 1]
             el == construction'[n + 2]
             a == NewArgs.a
             b == NewArgs.b
             c == NewArgs.c
         IN  /\ Len(construction') = n + 2
             /\ SubSeq(construction', 1, n) = construction
             /\ ex.tag = "expression"
             /\ Attr(ex, "label") = NewArgs.label
             /\ Attr(ex, "exp") = Decimal(a) \o "x + " \o Decimal(b) \o "y + "
                                  \o Decimal(c) \o " = 0"
             /\ el.tag = "element"
             /\ Attr(el, "type") = "line"
             /\ Attr(el, "label") = NewArgs.label
             /\ HasChild(el, "coords")
             /\ Child(el, "coords").attrs = << <<"x", Decimal(a)>>, <<"y", Decimal(b)>>,
                                               <<"z", Decimal(c)>> >>]_vars

\* a line with a negative and a two-digit coefficient was added
C4_Witness ==
    /\ Len(calls) >= 1
    /\ LastCall.op = "add_line_by_coeffs"
    /\ LastCall.args.b # LastCall.args.c
    /\ LastCall.args.a < 0
    /\ \E v \in {LastCall.args.b, LastCall.args.c} : v >= 10

(* ------------------------------- C5 ------------------------------------ *)

\* C5: add_point(label, x, y) appends exactly one entry, an element entry of
\* kind point with the label and the coordinate triple (x, y, 1.0); the
\* construction list in the tree that a successful save writes is the
\* document's list, entry for entry.
C5_AddPointAppendsPointElement ==
    [][/\ Called("add_point") =>
            LET n == Len(construction)
                el == construction'[n + 1]
            IN  /\ Len(construction') = n + 1
                /\ SubSeq(construction', 1, n) = construction
                /\ el.tag = "element"
                /\ Attr(el, "type") = "point"
                /\ Attr(el, "label") = NewArgs.label
                /\ HasChild(el, "coords")
                /\ Child(el, "coords").attrs = << <<"x", Decimal(NewArgs.x)>>,
                                                  <<"y", Decimal(NewArgs.y)>>,
                                                  <<"z", "1.0">> >>
       /\ (Called("save") /\ outcome' = "ok") =>
            /\ Len(disk') >= 1
            /\ SavedConstruction(disk') = construction
            /\ construction' = construction]_vars

\* a point with different coordinates was added and the document then saved
C5_Witness ==
    /\ Len(calls) >= 2
    /\ LastCall.op = "save"
    /\ outcome = "ok"
    /\ calls[Len(calls) - 1].op = "add_point"
    /\ calls[Len(calls) - 1].args.x # calls[Len(calls) - 1].args.y
    /\ Len(disk) >= 1
    /\ Len(SavedConstruction(disk)) >= 1

(* ------------------------------- C6 ------------------------------------ *)

EndsWithGGB(name) ==
    /\ Len(name) >= 4
    /\ name[Len(name) - 3] = "."
    /\ name[Len(name) - 2] = "g"
    /\ name[Len(name) - 1] = "g"
    /\ name[Len(name)] = "b"

\* C6: save(filename) writes to a path that ends with ".ggb": a name that does
\* not end with ".ggb" gets the extension appended once, a name that ends with
\* it is used unchanged, and normalising the written path again changes nothing.
C6_SavePathCarriesExtension ==
    [][(Called("save") /\ outcome' = "ok") =>
         LET name == NewArgs.filename
             path == disk'[Len(disk')].path
         IN  /\ Len(disk') >= 1
             /\ EndsWithGGB(path)
             /\ EndsWithGGB(name) => path = name
             /\ ~EndsWithGGB(name) => path = name \o <<".", "g", "g", "b">>
             /\ save_filename(path) = path]_vars

\* a name that already carries the extension was saved
C6_Witness ==
    /\ Len(calls) >= 1
    /\ LastCall.op = "save"
    /\ outcome = "ok"
    /\ EndsWithGGB(LastCall.args.filename)
    /\ Len(disk) >= 1
    /\ disk[Len(disk)].path = LastCall.args.filename

(* ------------------------------- C7 ------------------------------------ *)

\* C7: every builder call is a pure append: the construction list before the
\* call is a prefix of the list after it, and the root attributes and the
\* GUI, view-settings and kernel-settings sections are unchanged.
C7_BuildersArePureAppends ==
    [][(\E op \in BuilderOps : Called(op)) =>
         /\ IsPrefix(construction, construction')
         /\ Len(construction') > Len(construction)
         /\ root_attribs' = root_attribs
         /\ gui' = gui
         /\ euclidianView' = euclidianView
         /\ kernel' = kernel]_vars

\* a builder was called on a document that already had entries
C7_Witness ==
    /\ Len(calls) >= 2
    /\ LastCall.op = "add_point"
    /\ calls[Len(calls) - 1].op \in BuilderOps
    /\ Len(construction) >= 2

(* ------------------------------- C8 ------------------------------------ *)

Contribution(op) == IF op = "add_point" THEN 1 ELSE 2

\* the call duplicates a declared label or names an undeclared input
Misuse(op, args, c) ==
    \/ args.label \in DeclaredBefore(c, Len(c))
    \/ /\ op = "add_segment"
       /\ ~({args.point1_label, args.point2_label} \subseteq DeclaredBefore(c, Len(c)))
    \/ /\ op = "add_orthogonal_line"
       /\ ~({args.point_label, args.line_label} \subseteq DeclaredBefore(c, Len(c)))

\* C8: a builder call whose label duplicates a declared label, or whose input
\* labels are not declared earlier, does not fail: it returns normally and
\* appends its entries, the last of them the element entry with the new
\* label; no builder call ends in an error.
C8_BuildersDoNotValidate ==
    [][\A op \in BuilderOps : Called(op) =>
         /\ outcome' = "ok"
         /\ Misuse(op, NewArgs, construction) =>
              /\ Len(construction') = Len(construction) + Contribution(op)
              /\ construction'[Len(construction')].tag = "element"
              /\ Attr(construction'[Len(construction')], "label") = NewArgs.label]_vars

\* a segment was added whose inputs were never declared
C8_Witness ==
    /\ Len(calls) >= 1
    /\ LastCall.op = "add_segment"
    /\ outcome = "ok"
    /\ Len(construction) >= 2
    /\ ~({LastCall.args.point1_label, LastCall.args.point2_label}
            \subseteq DeclaredBefore(construction, Len(construction) - 2))

(* ------------------------------- C9 ------------------------------------ *)

\* C9: in every reachable state each command entry is immediately followed by
\* an element entry whose label is the command's output label and that has no
\* input declaration; no command entry is the last entry of the list.
C9_CommandPrecedesItsElement ==
    \A i \in 1..Len(construction) :
        construction[i].tag = "command" =>
            /\ i < Len(construction)
            /\ construction[i + 1].tag = "element"
            /\ HasChild(construction[i], "output")
            /\ Attr(construction[i + 1], "label") = Attr(Child(construction[i], "output"), "a0")
            /\ ~HasChild(construction[i + 1], "input")

\* the list holds a Segment command and an OrthogonalLine command
C9_Witness ==
    /\ \E i \in 1..Len(construction) :
          construction[i].tag = "command" /\ Attr(construction[i], "name") = "Segment"
    /\ \E i \in 1..Len(construction) :
          construction[i].tag = "command" /\ Attr(construction[i], "name") = "OrthogonalLine"

(* ------------------------------- C10 ----------------------------------- *)

Saved == \E i \in 1..Len(calls) : calls[i].op = "save"

tree == <<root_attribs, gui, euclidianView, kernel, construction>>

====
